---- MODULE Spec2Model ----
(***************************************************************************)
(* pdb_to_psf.py: PDB -> PSF conversion with optional GROMACS ITP and      *)
(* CHARMM RTF enrichment.  The model follows the orchestrator (__main__)   *)
(* through load, the two resolvers, the two filters and the PSF emitter.   *)
(* Every loop of the program is one action per iteration; the text of the  *)
(* input files is drawn line by line from small sets of representative     *)
(* lines.  Charges (floats) are modelled as integers in hundredths.        *)
(***************************************************************************)
EXTENDS Integers, Sequences, FiniteSets, TLC

VARIABLES
    args,              \* argparse result: gromacs_itp (0 = None, n = n files), charmm_top, keep_atom
    pc,                \* position of the orchestrator / of the running method
    atoms,             \* Molecule.atoms
    has_charges,       \* whether the attribute Molecule.charges exists
    charges,           \* Molecule.charges (force-field type -> charge)
    has_charge_by_type,\* whether the attribute Molecule.charge_by_type exists
    charge_by_type,    \* Molecule.charge_by_type (residue -> type -> charge)
    bond_list,         \* add_charmm_topology: local bond_list
    current_residue,   \* add_charmm_topology: local current_residue
    atom_i,            \* add_atom_types_from_itp: the cursor
    itp_file,          \* add_atom_types_from_itp: number of the file being read (0: none yet)
    in_atom_block,     \* add_atom_types_from_itp: local flag
    in_atomtypes_block,\* add_atom_types_from_itp: local flag
    in_ifdef_block,    \* add_atom_types_from_itp: local flag
    emit_i,            \* print_as_psf: number of atoms the loop has handled
    output,            \* standard output, a sequence of lines
    fatal,             \* "none", or what ended the run
    fatal_in,          \* the stage in which the run ended abnormally
    exit_status,       \* process exit status (-1 while running)
    loaded,            \* history: Molecule.atoms as load_from_pdb left it
    itp_atom_lines,    \* history: (resid, ff_type) of the [ atoms ] lines parsed, in order
    itp_type_lines,    \* history: the [ atomtypes ] lines that reached lines 171-177, in order
    top_read,          \* history: the physical lines add_charmm_topology has read
    itp_invoked,       \* history: add_atom_types_from_itp was called
    charmm_invoked     \* history: add_charmm_topology was called

vars == <<args, pc, atoms, has_charges, charges, has_charge_by_type, charge_by_type,
          bond_list, current_residue, atom_i, itp_file, in_atom_block,
          in_atomtypes_block, in_ifdef_block, emit_i, output, fatal, fatal_in,
          exit_status, loaded, itp_atom_lines, itp_type_lines, top_read, itp_invoked,
          charmm_invoked>>

(***************************************************************************)
(* Bounds of the model.                                                    *)
(***************************************************************************)
MaxAtoms == 2
MaxItpFiles == 2
MaxTopLines == 3
MaxTypeLines == 2

EmptyMap == [x \in {} |-> 0]

Last(s) == s[Len(s)]

(***************************************************************************)
(* Conversions.  int() and float() accept surrounding blanks and fail on   *)
(* anything that is not a number; str.strip() removes surrounding blanks.  *)
(***************************************************************************)
IntVal ==
    ("0" :> 0) @@ ("1" :> 1) @@ ("2" :> 2) @@ ("3" :> 3) @@
    ("    1" :> 1) @@ ("    2" :> 2) @@ ("    7" :> 7) @@ ("    8" :> 8) @@
    ("    9" :> 9) @@ ("   1" :> 1) @@ ("   2" :> 2)

IsInt(tok) == tok \in DOMAIN IntVal

IntOf(tok) == IntVal[tok]

FloatVal ==
    ("0.02" :> 2) @@ ("0.020" :> 2) @@ ("0.05" :> 5) @@ ("-0.27" :> -27) @@
    ("-0.30" :> -30) @@ ("-0.47" :> -47) @@ ("12.01" :> 1201) @@
    ("14.01" :> 1401) @@ ("6" :> 600) @@ ("0.3" :> 30) @@ ("0.4" :> 40) @@
    ("0" :> 0) @@ ("1" :> 100) @@ ("2" :> 200) @@ ("3" :> 300)

IsFloat(tok) == tok \in DOMAIN FloatVal

FloatOf(tok) == FloatVal[tok]

StripVal ==
    (" CA " :> "CA") @@ (" N  " :> "N") @@ (" OW " :> "OW") @@
    ("ALA" :> "ALA") @@ ("WAT" :> "WAT") @@ ("HOH" :> "HOH")

Strip(col) == StripVal[col]

(***************************************************************************)
(* PDB lines, by their fixed columns.  cols_ok says whether the columns    *)
(* 30..66 hold five numbers (a truncated line does not).                   *)
(***************************************************************************)
PdbLine(tag, id, name, res, ch, rid, ok) ==
    [tag |-> tag, c6_11 |-> id, c12_16 |-> name, c17_20 |-> res, c21 |-> ch,
     c22_26 |-> rid, cols_ok |-> ok]

PdbLines ==
    { PdbLine("ATOM  ", "    1", " CA ", "ALA", " ", "   1", TRUE),
      PdbLine("ATOM  ", "    2", " N  ", "ALA", "A", "   2", TRUE),
      PdbLine("ATOM  ", "    7", " OW ", "WAT", " ", "****", TRUE),
      PdbLine("ATOM  ", "    8", " OW ", "HOH", " ", "   1", TRUE),
      PdbLine("HETATM", "    3", " CA ", "ALA", "A", "   1", TRUE),
      PdbLine("ATOM  ", "    9", " CA ", "ALA", "A", "   1", FALSE) }

\* AtomRecord.__init__ succeeds: atomid and the five float columns parse.
AtomRecordOk(line) == IsInt(line.c6_11) /\ line.cols_ok

\* AtomRecord.__init__
AtomRecord(line) ==
    [atomid   |-> IntOf(line.c6_11),
     atomname |-> Strip(line.c12_16),
     resname  |-> Strip(line.c17_20),
     chain    |-> IF line.c21 = " " THEN "X" ELSE line.c21,
     resid    |-> IF IsInt(line.c22_26) THEN IntOf(line.c22_26) ELSE 0,
     ff_type  |-> ""]

solvent_residues == {"WAT", "T3P", "HOH", "PW", "W"}

\* Exit statuses: sys.exit(1) twice in add_atom_types_from_itp; an exception
\* nothing catches ends the interpreter with status 1 as well.
PreconditionExit == 1
MismatchExit == 1
UncaughtExit == 1

(***************************************************************************)
(* The orchestrator (__main__): which stage follows which.                 *)
(***************************************************************************)
StageAfterItpMut(a) == "charmm_enter"
StageAfterItp(a) == IF a.charmm_top THEN "charmm_enter" ELSE "nuke"

StageAfterLoadMut(a) == "emit"
StageAfterLoad(a) == IF a.gromacs_itp # 0 THEN "itp_enter" ELSE StageAfterItp(a)

StageAfterNuke(a) == IF a.keep_atom # "None" THEN "keep" ELSE "emit"

\* A fatal condition: nothing catches it, the run ends.
Abort(reason, stage, status) ==
    /\ pc' = "aborted"
    /\ fatal' = reason
    /\ fatal_in' = stage
    /\ exit_status' = status

(***************************************************************************)
(* Molecule.__init__ / load_from_pdb: one action per line of the PDB file. *)
(***************************************************************************)
LoadLine(line) ==
    /\ pc = "load"
    /\ IF line.tag # "ATOM  "
         THEN UNCHANGED <<atoms, pc, fatal, fatal_in, exit_status>>
         ELSE IF AtomRecordOk(line)
              THEN /\ Len(atoms) < MaxAtoms
                   /\ atoms' = Append(atoms, AtomRecord(line))
                   /\ UNCHANGED <<pc, fatal, fatal_in, exit_status>>
              ELSE /\ Abort("ValueError", "load", UncaughtExit)
                   /\ UNCHANGED atoms
    /\ UNCHANGED <<args, has_charges, charges, has_charge_by_type, charge_by_type,
                   bond_list, current_residue, atom_i, itp_file, in_atom_block,
                   in_atomtypes_block, in_ifdef_block, emit_i, output, loaded,
                   itp_atom_lines, itp_type_lines, top_read, itp_invoked,
                   charmm_invoked>>

\* End of the PDB file: the constructor returns and __main__ goes on.
LoadEOF ==
    /\ pc = "load"
    /\ loaded' = atoms
    /\ pc' = StageAfterLoad(args)
    /\ UNCHANGED <<args, atoms, has_charges, charges, has_charge_by_type,
                   charge_by_type, bond_list, current_residue, atom_i, itp_file,
                   in_atom_block, in_atomtypes_block, in_ifdef_block, emit_i,
                   output, fatal, fatal_in, exit_status, itp_atom_lines,
                   itp_type_lines, top_read,
                   itp_invoked, charmm_invoked>>

(***************************************************************************)
(* add_atom_types_from_itp.  An ITP line is the sequence of its tokens     *)
(* (line.strip() and split()); the startswith tests read its first tokens. *)
(***************************************************************************)
ItpLines ==
    { <<"[", "atoms", "]">>,
      <<"[", "atomtypes", "]">>,
      <<"[", "bonds", "]">>,
      <<"#ifdef", "FLEXIBLE">>,
      <<"#endif">>,
      <<";", "comment">>,
      <<>>,
      <<"1", "CT", "1", "ALA", "CA", "1", "0.02", "12.01">>,
      <<"2", "NH", "2", "ALA", "N">>,
      <<"3", "OW", "0", "WAT", "OW">>,
      <<"CT", "6", "12.01", "0.02", "A", "0.3", "0.4">>,
      <<"CT", "12.01", "-0.27", "A", "0.3", "0.4">>,
      <<"NH", "7", "14.01", "-0.30", "A", "0.3", "0.4", ";amide">>,
      <<"OW", "A", "0.3">> }

StartsWithAtoms(line) ==
    Len(line) >= 3 /\ line[1] = "[" /\ line[2] = "atoms" /\ line[3] = "]"

StartsWithAtomtypes(line) ==
    Len(line) >= 3 /\ line[1] = "[" /\ line[2] = "atomtypes" /\ line[3] = "]"

StartsWithBracket(line) == Len(line) >= 2 /\ line[1] = "["

StartsWithIf(line) == Len(line) >= 1 /\ line[1] \in {"#if", "#ifdef", "#ifndef"}

StartsWithEndif(line) == Len(line) >= 1 /\ line[1] = "#endif"

CommentOrBlank(line) == IF Len(line) = 0 THEN TRUE ELSE line[1] = ";"

\* The lines the if/elif chain of lines 137-155 consumes before the ifdef test.
IsControlLine(line) ==
    IF StartsWithBracket(line) THEN TRUE
    ELSE IF StartsWithIf(line) THEN TRUE
    ELSE IF StartsWithEndif(line) THEN TRUE
    ELSE CommentOrBlank(line)

\* Lines 162-164: five leading tokens, atomid and resid are integers.
AtomLineParses(toks) == Len(toks) >= 5 /\ IsInt(toks[1]) /\ IsInt(toks[3])

AtomLineResid(toks) == IntOf(toks[3])

AtomLineType(toks) == toks[2]

\* Line 165: the residue id of the ITP line against the atom under the cursor.
ResidMismatchMut(atom, resid) == FALSE
ResidMismatch(atom, resid) == atom.resid # resid

\* Lines 172-176: the 7-token form, else the 6-token form, else ValueError.
TypeLineUnpacks(toks) == Len(toks) >= 6

TypeLineChargeMut(toks) == IF Len(toks) = 7 THEN toks[4] ELSE toks[3]
TypeLineCharge(toks) == IF Len(toks) >= 7 THEN toks[4] ELSE toks[3]

TypeLineType(toks) == toks[1]

\* Lines 165, 168: self.atoms[atom_i], the place in the sequence of the
\* atom under the cursor; 0 when the index is out of range (IndexError).
CursorSlotMut(as, i) == (i % Len(as)) + 1
CursorSlot(as, i) == IF i < Len(as) THEN i + 1 ELSE 0

\* Lines 168-169: the atom under the cursor gets the type.
AssignTypeMut(as, i, t) == [as EXCEPT ![1].ff_type = t]
AssignType(as, i, t) == [as EXCEPT ![i + 1].ff_type = t]

ItpUnchanged ==
    UNCHANGED <<args, has_charges, has_charge_by_type, charge_by_type, bond_list,
                current_residue, emit_i, output, loaded, top_read, itp_invoked,
                charmm_invoked>>

ItpRunning == UNCHANGED <<pc, fatal, fatal_in, exit_status>>

\* Line 123: the precondition of the resolver fails.
NoAtomsMut(as) == FALSE
NoAtoms(as) == Len(as) = 0

\* Lines 123-133: the precondition, the initialisation, the first file.
ItpEnter ==
    /\ pc = "itp_enter"
    /\ itp_invoked' = TRUE
    /\ IF NoAtoms(atoms)
         THEN /\ Abort("precondition", "itp", PreconditionExit)
              /\ UNCHANGED <<atom_i, has_charges, charges, itp_file, in_atom_block,
                             in_atomtypes_block, in_ifdef_block>>
         ELSE /\ atom_i' = 0
              /\ has_charges' = TRUE
              /\ charges' = EmptyMap
              /\ itp_file' = 1
              /\ in_atom_block' = FALSE
              /\ in_atomtypes_block' = FALSE
              /\ in_ifdef_block' = FALSE
              /\ pc' = "itp"
              /\ UNCHANGED <<fatal, fatal_in, exit_status>>
    /\ UNCHANGED <<args, atoms, has_charge_by_type, charge_by_type, bond_list,
                   current_residue, emit_i, output, loaded, itp_atom_lines,
                   itp_type_lines, top_read,
                   charmm_invoked>>

\* Lines 137-155: section markers, #if / #endif, comments and blank lines.
ItpControlLine(line) ==
    /\ pc = "itp"
    /\ IsControlLine(line)
    /\ IF StartsWithAtoms(line)
         THEN in_atom_block' = TRUE /\ in_atomtypes_block' = FALSE
                /\ UNCHANGED in_ifdef_block
         ELSE IF StartsWithAtomtypes(line)
         THEN in_atomtypes_block' = TRUE /\ in_atom_block' = FALSE
                /\ UNCHANGED in_ifdef_block
         ELSE IF StartsWithBracket(line)
         THEN in_atom_block' = FALSE /\ in_atomtypes_block' = FALSE
                /\ UNCHANGED in_ifdef_block
         ELSE IF StartsWithIf(line)
         THEN in_ifdef_block' = TRUE
                /\ UNCHANGED <<in_atom_block, in_atomtypes_block>>
         ELSE IF StartsWithEndif(line)
         THEN in_ifdef_block' = FALSE
                /\ UNCHANGED <<in_atom_block, in_atomtypes_block>>
         ELSE UNCHANGED <<in_atom_block, in_atomtypes_block, in_ifdef_block>>
    /\ ItpRunning
    /\ ItpUnchanged
    /\ UNCHANGED <<atoms, charges, atom_i, itp_file, itp_atom_lines,
                   itp_type_lines>>

\* Lines 158-159 and the fall-through: a line that is skipped or in no block.
ItpIgnoredLine(line) ==
    /\ pc = "itp"
    /\ ~IsControlLine(line)
    /\ IF in_ifdef_block THEN TRUE ELSE ~in_atom_block /\ ~in_atomtypes_block
    /\ ItpRunning
    /\ ItpUnchanged
    /\ UNCHANGED <<atoms, charges, atom_i, itp_file, in_atom_block,
                   in_atomtypes_block, in_ifdef_block, itp_atom_lines,
                   itp_type_lines>>

\* Lines 161-169: a line of the [ atoms ] block.
ItpAtomLine(line) ==
    /\ pc = "itp"
    /\ ~IsControlLine(line)
    /\ ~in_ifdef_block
    /\ in_atom_block
    /\ IF ~AtomLineParses(line)
         THEN /\ Abort("ValueError", "itp", UncaughtExit)
              /\ UNCHANGED <<atoms, atom_i, itp_atom_lines>>
         ELSE /\ itp_atom_lines' =
                     Append(itp_atom_lines,
                            [resid |-> AtomLineResid(line), ff_type |-> AtomLineType(line)])
              /\ IF CursorSlot(atoms, atom_i) = 0
                   THEN /\ Abort("IndexError", "itp", UncaughtExit)
                        /\ UNCHANGED <<atoms, atom_i>>
                   ELSE IF ResidMismatch(atoms[CursorSlot(atoms, atom_i)],
                                         AtomLineResid(line))
                   THEN /\ Abort("mismatch", "itp", MismatchExit)
                        /\ UNCHANGED <<atoms, atom_i>>
                   ELSE /\ atoms' = AssignType(atoms, CursorSlot(atoms, atom_i) - 1,
                                               AtomLineType(line))
                        /\ atom_i' = atom_i + 1
                        /\ ItpRunning
    /\ ItpUnchanged
    /\ UNCHANGED <<charges, itp_type_lines, itp_file, in_atom_block, in_atomtypes_block,
                   in_ifdef_block>>

\* Line 177: self.charges[ff_type] = float(charge)
StoreChargeMut(tab, t, c) == tab @@ (t :> c)
StoreCharge(tab, t, c) == (t :> c) @@ tab

\* A line of the [ atomtypes ] block as the history keeps it: its tokens and
\* whether it reached line 177.
TypeLineRead(toks, stored) == [toks |-> toks, stored |-> stored]

\* Lines 170-177: a line of the [ atomtypes ] block.
ItpTypeLine(line) ==
    /\ pc = "itp"
    /\ ~IsControlLine(line)
    /\ ~in_ifdef_block
    /\ ~in_atom_block
    /\ in_atomtypes_block
    /\ Len(itp_type_lines) < MaxTypeLines
    /\ IF TypeLineUnpacks(line) /\ IsFloat(TypeLineCharge(line))
         THEN /\ charges' = StoreCharge(charges, TypeLineType(line),
                                        FloatOf(TypeLineCharge(line)))
              /\ itp_type_lines' = Append(itp_type_lines, TypeLineRead(line, TRUE))
              /\ ItpRunning
         ELSE /\ Abort("ValueError", "itp", UncaughtExit)
              /\ itp_type_lines' = Append(itp_type_lines, TypeLineRead(line, FALSE))
              /\ UNCHANGED charges
    /\ ItpUnchanged
    /\ UNCHANGED <<atoms, atom_i, itp_file, in_atom_block, in_atomtypes_block,
                   in_ifdef_block, itp_atom_lines>>

\* Lines 131-132: the value a flag takes when a file is opened, whatever it
\* was at the end of the file before.
FlagAtFileStartMut(before) == before
FlagAtFileStart(before) == FALSE

\* End of an ITP file: line 130 opens the next one (131-133), or the method
\* returns; its flags die with it, the cursor is kept for inspection.
ItpEOF ==
    /\ pc = "itp"
    /\ IF itp_file < args.gromacs_itp
         THEN /\ itp_file' = itp_file + 1
              /\ in_atom_block' = FlagAtFileStart(in_atom_block)
              /\ in_atomtypes_block' = FlagAtFileStart(in_atomtypes_block)
              /\ in_ifdef_block' = FlagAtFileStart(in_ifdef_block)
              /\ UNCHANGED pc
         ELSE /\ itp_file' = 0
              /\ in_atom_block' = FALSE
              /\ in_atomtypes_block' = FALSE
              /\ in_ifdef_block' = FALSE
              /\ pc' = StageAfterItp(args)
    /\ UNCHANGED <<fatal, fatal_in, exit_status>>
    /\ ItpUnchanged
    /\ UNCHANGED <<atoms, charges, atom_i, itp_atom_lines,
                   itp_type_lines>>

(***************************************************************************)
(* add_charmm_topology.  A line of the topology file is the tokens before  *)
(* its `!' comment, whether it has a comment, and whether that comment     *)
(* ends with `-'.                                                          *)
(***************************************************************************)
TopLine(card, bang, comment_dash) ==
    [card |-> card, bang |-> bang, comment_dash |-> comment_dash]

TopLines ==
    { TopLine(<<"RESI", "ALA", "0">>, FALSE, FALSE),
      TopLine(<<"RESI", "GLY", "0">>, FALSE, FALSE),
      TopLine(<<"ATOM", "CA", "CT1", "0.02">>, FALSE, FALSE),
      TopLine(<<"ATOM", "CB", "CT1", "0.05">>, TRUE, FALSE),
      TopLine(<<"ATOM", "N", "NH3", "-0.47">>, FALSE, FALSE),
      TopLine(<<"ATOM", "CA", "CT1", "0.020">>, TRUE, TRUE),
      TopLine(<<"ATOM", "CA", "CT1">>, FALSE, FALSE),
      TopLine(<<"BOND", "CA", "CB">>, FALSE, FALSE),
      TopLine(<<"BOND", "CA", "CB", "-">>, FALSE, FALSE),
      TopLine(<<"BOND", "CA">>, FALSE, FALSE),
      TopLine(<<"GROUP">>, FALSE, FALSE),
      TopLine(<<>>, TRUE, FALSE) }

\* Line 91: l.strip().endswith('-'), on the line as read, comment included.
RawEndsWithDash(l) ==
    IF l.bang THEN l.comment_dash ELSE Len(l.card) > 0 /\ Last(l.card) = "-"

\* Line 94: the text left of the comment, stripped; here its tokens.
NukeComment(l) == l.card

\* Lines 96, 103, 107: the first four characters of the card.
CardTag(toks) ==
    IF toks[1] \in {"RESI", "ATOM", "BOND"} THEN toks[1] ELSE "other"

\* Line 106: the key under which an ATOM card's charge is stored.
AtomCardKeyMut(toks) == toks[2]
AtomCardKey(toks) == toks[3]

\* Line 101: NTER and CTER specific atom charge.
NH3Charge == -30

\* Line 98-101: the table a RESI card opens.
NewResidueTable == ("NH3" :> NH3Charge)

\* Lines 108-114: the keys a BOND card adds (both orders of every full pair).
BondKeys(bonds) ==
    UNION { { <<bonds[2 * k - 1], bonds[2 * k]>>, <<bonds[2 * k], bonds[2 * k - 1]>> } :
            k \in 1..(Len(bonds) \div 2) }

Read(l, disp) == [line |-> l, disp |-> disp]

CharmmUnchanged ==
    UNCHANGED <<args, atoms, has_charges, charges, atom_i, itp_file, in_atom_block,
                in_atomtypes_block, in_ifdef_block, emit_i, output, loaded,
                itp_atom_lines, itp_type_lines, itp_invoked>>

CharmmRunning == UNCHANGED <<pc, fatal, fatal_in, exit_status>>

\* Lines 77-86.
CharmmEnter ==
    /\ pc = "charmm_enter"
    /\ charmm_invoked' = TRUE
    /\ current_residue' = ""
    /\ has_charge_by_type' = TRUE
    /\ charge_by_type' = EmptyMap
    /\ bond_list' = EmptyMap
    /\ pc' = "charmm"
    /\ UNCHANGED <<fatal, fatal_in, exit_status, top_read>>
    /\ CharmmUnchanged

\* Lines 96-102: a RESI card.
ResiCardMut(toks) ==
    IF Len(toks) < 2
    THEN /\ Abort("IndexError", "charmm", UncaughtExit)
         /\ UNCHANGED <<current_residue, charge_by_type, bond_list>>
    ELSE /\ current_residue' = toks[2]
         /\ charge_by_type' = charge_by_type @@ (toks[2] :> NewResidueTable)
         /\ bond_list' = bond_list @@ (toks[2] :> {})
         /\ CharmmRunning
ResiCard(toks) ==
    IF Len(toks) < 2
    THEN /\ Abort("IndexError", "charmm", UncaughtExit)
         /\ UNCHANGED <<current_residue, charge_by_type, bond_list>>
    ELSE /\ current_residue' = toks[2]
         /\ charge_by_type' = (toks[2] :> NewResidueTable) @@ charge_by_type
         /\ bond_list' = (toks[2] :> {}) @@ bond_list
         /\ CharmmRunning

\* Lines 103-106: an ATOM card.
AtomCard(toks) ==
    IF (IF Len(toks) # 4 THEN TRUE ELSE ~IsFloat(toks[4]))
    THEN /\ Abort("ValueError", "charmm", UncaughtExit)
         /\ UNCHANGED <<current_residue, charge_by_type, bond_list>>
    ELSE IF current_residue \notin DOMAIN charge_by_type
    THEN /\ Abort("KeyError", "charmm", UncaughtExit)
         /\ UNCHANGED <<current_residue, charge_by_type, bond_list>>
    ELSE /\ charge_by_type' =
              [charge_by_type EXCEPT ![current_residue] =
                  (AtomCardKey(toks) :> FloatOf(toks[4])) @@ @]
         /\ CharmmRunning
         /\ UNCHANGED <<current_residue, bond_list>>

\* Lines 107-114: a BOND card.  An odd token is met after the full pairs
\* before it were stored; without a current residue the first store fails.
BondCard(toks) ==
    LET bonds == Tail(toks) IN
    IF Len(bonds) >= 2 /\ current_residue \notin DOMAIN bond_list
    THEN /\ Abort("KeyError", "charmm", UncaughtExit)
         /\ UNCHANGED <<current_residue, charge_by_type, bond_list>>
    ELSE IF Len(bonds) % 2 = 1
    THEN /\ Abort("IndexError", "charmm", UncaughtExit)
         /\ bond_list' = IF Len(bonds) >= 2
                         THEN [bond_list EXCEPT ![current_residue] = @ \cup BondKeys(bonds)]
                         ELSE bond_list
         /\ UNCHANGED <<current_residue, charge_by_type>>
    ELSE /\ bond_list' = IF Len(bonds) >= 2
                         THEN [bond_list EXCEPT ![current_residue] = @ \cup BondKeys(bonds)]
                         ELSE bond_list
         /\ CharmmRunning
         /\ UNCHANGED <<current_residue, charge_by_type>>

\* One iteration of the loop of lines 87-114 on a line that is no
\* continuation line.
CharmmLine(l) ==
    /\ pc = "charmm"
    /\ Len(top_read) < MaxTopLines
    /\ ~RawEndsWithDash(l)
    /\ LET toks == NukeComment(l) IN
       IF Len(toks) = 0
       THEN /\ top_read' = Append(top_read, Read(l, "empty"))
            /\ CharmmRunning
            /\ UNCHANGED <<current_residue, charge_by_type, bond_list>>
       ELSE IF CardTag(toks) = "RESI" THEN ResiCard(toks)
       ELSE IF CardTag(toks) = "ATOM" THEN AtomCard(toks)
       ELSE IF CardTag(toks) = "BOND" THEN BondCard(toks)
       ELSE /\ CharmmRunning
            /\ UNCHANGED <<current_residue, charge_by_type, bond_list>>
    /\ LET toks == NukeComment(l) IN
       Len(toks) > 0 =>
          top_read' = Append(top_read, Read(l, IF pc' = "aborted" THEN "fatal" ELSE "card"))
    /\ UNCHANGED <<has_charge_by_type, charmm_invoked>>
    /\ CharmmUnchanged

\* Lines 88, 92: the two readline calls of an iteration that meets a line
\* ending with `-'; the `continue' of line 93 drops both lines.
ContinuationReadsMut(l, nxt) == <<Read(l, "continuation")>>
ContinuationReads(l, nxt) == <<Read(l, "continuation"), Read(nxt, "discarded")>>

\* Lines 91-93: a line ending with `-': it and the line after it are read
\* and dropped.
CharmmContinuation(l, nxt) ==
    /\ pc = "charmm"
    /\ Len(top_read) + 1 < MaxTopLines
    /\ RawEndsWithDash(l)
    /\ top_read' = top_read \o ContinuationReads(l, nxt)
    /\ CharmmRunning
    /\ UNCHANGED <<current_residue, charge_by_type, bond_list, has_charge_by_type,
                   charmm_invoked>>
    /\ CharmmUnchanged

\* Lines 116-120: the method returns; its locals die with it.
CharmmReturn ==
    /\ pc' = "nuke"
    /\ current_residue' = ""
    /\ bond_list' = EmptyMap
    /\ UNCHANGED <<fatal, fatal_in, exit_status, charge_by_type, has_charge_by_type,
                   charmm_invoked>>
    /\ CharmmUnchanged

\* Line 89: end of file.
CharmmEOF ==
    /\ pc = "charmm"
    /\ UNCHANGED top_read
    /\ CharmmReturn

\* Lines 91-93 on the last line of the file: the inner readline meets the
\* end of file, and so does the next iteration.
CharmmContinuationAtEOF(l) ==
    /\ pc = "charmm"
    /\ Len(top_read) < MaxTopLines
    /\ RawEndsWithDash(l)
    /\ top_read' = Append(top_read, Read(l, "continuation"))
    /\ CharmmReturn

(***************************************************************************)
(* The filters.                                                            *)
(***************************************************************************)
IsSolventMut(atom) == atom.resname = "WAT"
IsSolvent(atom) == atom.resname \in solvent_residues

FilterUnchanged ==
    UNCHANGED <<args, has_charges, charges, has_charge_by_type, charge_by_type,
                bond_list, current_residue, atom_i, itp_file, in_atom_block,
                in_atomtypes_block, in_ifdef_block, emit_i, output, fatal, fatal_in,
                exit_status, loaded, itp_atom_lines, itp_type_lines, top_read, itp_invoked,
                charmm_invoked>>

\* Line 47: the list comprehension of nuke_solvent.
NukeSolventMut(as) ==
    LET s == SelectSeq(as, LAMBDA a : ~IsSolvent(a))
    IN  [i \in 1..Len(s) |-> s[Len(s) + 1 - i]]
NukeSolvent(as) == SelectSeq(as, LAMBDA a : ~IsSolvent(a))

\* Line 52: the list comprehension of keep_only_atomname.
KeepOnlyAtomnameMut(as, atomname) == SelectSeq(as, LAMBDA a : a.atomname # atomname)
KeepOnlyAtomname(as, atomname) == SelectSeq(as, LAMBDA a : a.atomname = atomname)

\* Molecule.nuke_solvent
nuke_solvent ==
    /\ pc = "nuke"
    /\ atoms' = NukeSolvent(atoms)
    /\ pc' = StageAfterNuke(args)
    /\ FilterUnchanged

\* Molecule.keep_only_atomname
keep_only_atomname ==
    /\ pc = "keep"
    /\ atoms' = KeepOnlyAtomname(atoms, args.keep_atom)
    /\ pc' = "emit"
    /\ FilterUnchanged

(***************************************************************************)
(* print_as_psf.  A line of the output is a record; the fixed text lines   *)
(* carry their text, the !NATOM line its count, an atom line its fields.   *)
(***************************************************************************)
TextLine(t) ==
    [kind |-> "text", text |-> t, n |-> 0, atomid |-> 0, chain |-> "", resid |-> 0,
     resname |-> "", atomname |-> "", ff_type |-> "", charge |-> 0]

CountLine(n, what) ==
    [kind |-> "count", text |-> what, n |-> n, atomid |-> 0, chain |-> "", resid |-> 0,
     resname |-> "", atomname |-> "", ff_type |-> "", charge |-> 0]

\* Line 66: self.charges[atom.ff_type]
ChargeLookupMut(tab, t) == 0
ChargeLookup(tab, t) == tab[t]

\* Lines 63-66: the fields of an atom's line.
AtomLineMut(atom, tab) ==
    [kind |-> "atom", text |-> "", n |-> 0, atomid |-> emit_i + 1, chain |-> atom.chain,
     resid |-> atom.resid, resname |-> atom.resname, atomname |-> atom.atomname,
     ff_type |-> atom.ff_type, charge |-> ChargeLookup(tab, atom.ff_type)]
AtomLine(atom, tab) ==
    [kind |-> "atom", text |-> "", n |-> 0, atomid |-> atom.atomid, chain |-> atom.chain,
     resid |-> atom.resid, resname |-> atom.resname, atomname |-> atom.atomname,
     ff_type |-> atom.ff_type, charge |-> ChargeLookup(tab, atom.ff_type)]

\* Line 61: the count printed on the !NATOM line.
NatomCount(as) == Len(as)

EmitUnchanged ==
    UNCHANGED <<args, atoms, has_charges, charges, has_charge_by_type, charge_by_type,
                bond_list, current_residue, atom_i, itp_file, in_atom_block,
                in_atomtypes_block, in_ifdef_block, loaded, itp_atom_lines,
                itp_type_lines, top_read,
                itp_invoked, charmm_invoked>>

\* Lines 55-61.
EmitHeader ==
    /\ pc = "emit"
    /\ output' = output \o
          << TextLine("PSF CMAP"), TextLine(""), TextLine("       2 !NTITLE"),
             TextLine(" REMARKS Generated by pdb_to_psf.py"),
             TextLine(" REMARKS Don't try MD with this"), TextLine(""),
             CountLine(NatomCount(atoms), "!NATOM") >>
    /\ emit_i' = 0
    /\ pc' = "emit_atoms"
    /\ UNCHANGED <<fatal, fatal_in, exit_status>>
    /\ EmitUnchanged

\* Line 66: the lookup fails, self.charges has no such key (KeyError) or
\* does not exist (AttributeError).  The arguments of the print are
\* evaluated first: a failed lookup prints nothing.
MissingChargeMut(reason) ==
    /\ emit_i' = emit_i + 1
    /\ UNCHANGED <<output, pc, fatal, fatal_in, exit_status>>
MissingCharge(reason) ==
    /\ Abort(reason, "emit", UncaughtExit)
    /\ UNCHANGED <<output, emit_i>>

\* Lines 63-66: one iteration of the loop.
EmitAtom ==
    /\ pc = "emit_atoms"
    /\ emit_i < Len(atoms)
    /\ IF ~has_charges
         THEN MissingCharge("AttributeError")
         ELSE IF atoms[emit_i + 1].ff_type \notin DOMAIN charges
         THEN MissingCharge("KeyError")
         ELSE /\ output' = Append(output, AtomLine(atoms[emit_i + 1], charges))
              /\ emit_i' = emit_i + 1
              /\ UNCHANGED <<pc, fatal, fatal_in, exit_status>>
    /\ EmitUnchanged

\* Lines 68-72, and the end of the run.
EmitTrailer ==
    /\ pc = "emit_atoms"
    /\ emit_i = Len(atoms)
    /\ output' = output \o
          << TextLine(""), CountLine(0, "!NBOND"), TextLine(""),
             CountLine(0, "!NTHETA"), TextLine(""), CountLine(0, "!NPHI"), TextLine(""),
             CountLine(0, "!NIMPHI"), TextLine(""), CountLine(0, "!NCRTERM"), TextLine("") >>
    /\ pc' = "done"
    /\ exit_status' = 0
    /\ UNCHANGED <<emit_i, fatal, fatal_in>>
    /\ EmitUnchanged

(***************************************************************************)
(* Specifications.                                                         *)
(***************************************************************************)
KeepNames == {"None", "CA"}

InitWith(a) ==
    /\ args = a
    /\ pc = "load"
    /\ atoms = <<>>
    /\ has_charges = FALSE
    /\ charges = EmptyMap
    /\ has_charge_by_type = FALSE
    /\ charge_by_type = EmptyMap
    /\ bond_list = EmptyMap
    /\ current_residue = ""
    /\ atom_i = 0
    /\ itp_file = 0
    /\ in_atom_block = FALSE
    /\ in_atomtypes_block = FALSE
    /\ in_ifdef_block = FALSE
    /\ emit_i = 0
    /\ output = <<>>
    /\ fatal = "none"
    /\ fatal_in = "none"
    /\ exit_status = -1
    /\ loaded = <<>>
    /\ itp_atom_lines = <<>>
    /\ itp_type_lines = <<>>
    /\ top_read = <<>>
    /\ itp_invoked = FALSE
    /\ charmm_invoked = FALSE

Args(g, c, k) == [gromacs_itp |-> g, charmm_top |-> c, keep_atom |-> k]

\* pdb_to_psf.py -g a.itp [-g b.itp] [-k CA] mol.pdb
InitItp == \E g \in 1..MaxItpFiles, k \in KeepNames : InitWith(Args(g, FALSE, k))

NextItp ==
    \/ \E line \in PdbLines : LoadLine(line)
    \/ LoadEOF
    \/ ItpEnter
    \/ \E line \in ItpLines : ItpControlLine(line)
    \/ \E line \in ItpLines : ItpIgnoredLine(line)
    \/ \E line \in ItpLines : ItpAtomLine(line)
    \/ \E line \in ItpLines : ItpTypeLine(line)
    \/ ItpEOF
    \/ nuke_solvent
    \/ keep_only_atomname
    \/ EmitHeader
    \/ EmitAtom
    \/ EmitTrailer

SpecItp == InitItp /\ [][NextItp]_vars

\* Smaller sets of lines, for the runs in which a stage is not the one studied.
PdbLinesSmall ==
    { line \in PdbLines : line.c6_11 \in {"    1", "    7", "    9"} }

ItpLinesSmall ==
    { line \in ItpLines :
        \/ StartsWithBracket(line) /\ line[2] \in {"atoms", "atomtypes"}
        \/ Len(line) >= 7 }

TopLinesSmall ==
    { l \in TopLines : ~l.bang /\ Len(l.card) >= 3 /\ l.card[2] \in {"ALA", "CA"}
                         /\ l.card[1] # "BOND" }

\* pdb_to_psf.py -c top.rtf [-k CA] mol.pdb
InitCharmm == \E k \in KeepNames : InitWith(Args(0, TRUE, k))

NextCharmm ==
    \/ \E line \in PdbLinesSmall : LoadLine(line)
    \/ LoadEOF
    \/ CharmmEnter
    \/ \E l \in TopLines : CharmmLine(l)
    \/ \E l \in TopLines, nxt \in TopLines : CharmmContinuation(l, nxt)
    \/ \E l \in TopLines : CharmmContinuationAtEOF(l)
    \/ CharmmEOF
    \/ nuke_solvent
    \/ keep_only_atomname
    \/ EmitHeader
    \/ EmitAtom
    \/ EmitTrailer

SpecCharmm == InitCharmm /\ [][NextCharmm]_vars

\* pdb_to_psf.py [-g a.itp ...] [-c top.rtf] [-k CA] mol.pdb
Init ==
    \E g \in 0..MaxItpFiles, c \in BOOLEAN, k \in KeepNames : InitWith(Args(g, c, k))

Next ==
    \/ \E line \in PdbLinesSmall : LoadLine(line)
    \/ LoadEOF
    \/ ItpEnter
    \/ \E line \in ItpLinesSmall : ItpControlLine(line)
    \/ \E line \in ItpLinesSmall : ItpIgnoredLine(line)
    \/ \E line \in ItpLinesSmall : ItpAtomLine(line)
    \/ \E line \in ItpLinesSmall : ItpTypeLine(line)
    \/ ItpEOF
    \/ CharmmEnter
    \/ \E l \in TopLinesSmall : CharmmLine(l)
    \/ CharmmEOF
    \/ nuke_solvent
    \/ keep_only_atomname
    \/ EmitHeader
    \/ EmitAtom
    \/ EmitTrailer

Spec == Init /\ [][Next]_vars

(***************************************************************************)
(* Properties of add_atom_types_from_itp.                                  *)
(***************************************************************************)
AtomLinesOf(out) == SelectSeq(out, LAMBDA l : l.kind = "atom")

\* The first k atoms carry the types of the first k [ atoms ] lines, the
\* others none.
TypedUpTo(k) ==
    \A i \in 1..Len(atoms) :
        atoms[i].ff_type = IF i <= k THEN itp_atom_lines[i].ff_type ELSE ""

\* C1: when the k-th (0-based) parsed [ atoms ] line carries a residue id
\* different from that of the atom at cursor position k, the run aborts at
\* that line: the atoms before k keep their types, no atom from k on has one.
C1_MismatchAborts ==
    /\ \A i \in 1..Len(itp_atom_lines) :
          (i <= Len(loaded) /\ itp_atom_lines[i].resid # loaded[i].resid)
             => /\ pc = "aborted"
                /\ fatal = "mismatch"
                /\ i = Len(itp_atom_lines)
                /\ atom_i = i - 1
                /\ TypedUpTo(i - 1)
    /\ fatal = "mismatch"
          => /\ Len(itp_atom_lines) <= Len(loaded)
             /\ Last(itp_atom_lines).resid # loaded[Len(itp_atom_lines)].resid

C1_Witness ==
    /\ fatal = "mismatch"
    /\ Len(itp_atom_lines) = 2
    /\ atoms[1].ff_type # ""
    /\ atoms[2].ff_type = ""

\* The [ atoms ] lines parsed so far agree with the loaded atoms, position
\* by position.
Aligned ==
    /\ Len(itp_atom_lines) <= Len(loaded)
    /\ \A i \in 1..Len(itp_atom_lines) : itp_atom_lines[i].resid = loaded[i].resid

\* C2: with N >= 1 atoms and exactly N [ atoms ] lines over all files, the
\* i-th carrying the residue id of the i-th atom, the resolver returns with
\* the cursor at N and the i-th atom typed by the i-th line; aligned lines
\* never abort the run.
C2_AlignedResolution ==
    /\ pc = "itp" => atom_i = Len(itp_atom_lines) /\ Aligned /\ TypedUpTo(atom_i)
    /\ (fatal_in = "itp" /\ fatal \in {"mismatch", "IndexError"}) => ~Aligned
    /\ (itp_invoked /\ pc = "nuke" /\ Len(itp_atom_lines) = Len(atoms))
          => /\ Len(atoms) >= 1
             /\ atom_i = Len(atoms)
             /\ TypedUpTo(Len(atoms))

C2_Witness ==
    /\ itp_invoked
    /\ pc = "nuke"
    /\ Len(atoms) = 2
    /\ atom_i = 2
    /\ atoms[1].ff_type = "CT"
    /\ atoms[2].ff_type = "NH"

\* C3: a line read while the block-skip flag is set (after #if, before the
\* next #endif) changes neither the block state, nor the cursor, nor any
\* atom's type, nor the charge table.
C3_SkippedLinesIgnored ==
    [][(pc = "itp" /\ pc' = "itp" /\ itp_file' = itp_file
            /\ in_ifdef_block /\ in_ifdef_block')
        => UNCHANGED <<in_atom_block, in_atomtypes_block, atom_i, atoms, charges>>]_vars

(***************************************************************************)
(* Properties of print_as_psf and of the orchestrator.                     *)
(***************************************************************************)
Emitting == pc \in {"emit_atoms", "done"} \/ fatal_in = "emit"

\* The surviving atoms whose charge lookup fails.
Unchargeable ==
    { i \in 1..Len(atoms) : ~has_charges \/ atoms[i].ff_type \notin DOMAIN charges }

Min(S) == CHOOSE x \in S : \A y \in S : x <= y

HasTrailer(out) == \E j \in 1..Len(out) : out[j].kind = "count" /\ out[j].text = "!NBOND"

C5_AtMostOneResolver == ~(itp_invoked /\ charmm_invoked)

\* C5 as amended: each resolver is invoked exactly when its option is given,
\* the ITP resolver first; so both are invoked, and both tables may be
\* populated, exactly in the runs given both -g and -c.
C5_ResolversFollowOptions ==
    /\ itp_invoked => args.gromacs_itp # 0
    /\ charmm_invoked => args.charmm_top
    /\ has_charges => itp_invoked
    /\ has_charge_by_type = charmm_invoked
    /\ (charmm_invoked /\ args.gromacs_itp # 0) => (itp_invoked /\ itp_file = 0)
    /\ pc \in {"nuke", "keep", "emit", "emit_atoms", "done"} =>
          /\ itp_invoked = (args.gromacs_itp # 0)
          /\ charmm_invoked = args.charmm_top

C5_Witness ==
    /\ pc = "done"
    /\ itp_invoked
    /\ charmm_invoked
    /\ DOMAIN charges # {}
    /\ DOMAIN charge_by_type # {}

\* C6 as claimed: the empty-collection abort exits with status 1 before any
\* ITP file is opened, and the residue-id mismatch abort has another status.
C6_DistinctExitStatus ==
    /\ fatal = "precondition" => exit_status = 1 /\ itp_file = 0
    /\ fatal = "mismatch" => exit_status # 1

\* C6 as amended: the empty-collection abort exits with status 1 before any
\* ITP file is opened and before the charge table is created; the status is
\* shared: the residue-id mismatch abort exits with status 1 too.
C6_PreconditionExit ==
    /\ fatal = "precondition" =>
          /\ pc = "aborted"
          /\ exit_status = 1
          /\ itp_file = 0
          /\ Len(atoms) = 0
          /\ ~has_charges
    /\ (itp_invoked /\ Len(loaded) = 0) => fatal = "precondition"
    /\ fatal = "mismatch" => exit_status = 1

C6_Witness == fatal = "precondition" /\ itp_invoked /\ Len(loaded) = 0

\* The solvent residue names of the claims.
SolventNames == {"WAT", "T3P", "HOH", "PW", "W"}

NonSolventOf(as) == SelectSeq(as, LAMBDA a : a.resname \notin SolventNames)

\* The [ atoms ] lines parsed are, in order, the non-solvent atoms loaded.
EntriesMatchNonSolvent ==
    LET ns == NonSolventOf(loaded) IN
    /\ Len(itp_atom_lines) = Len(ns)
    /\ \A i \in 1..Len(ns) : itp_atom_lines[i].resid = ns[i].resid

\* The [ atomtypes ] lines read cover the types of the [ atoms ] lines.
TypesCovered ==
    \A i \in 1..Len(itp_atom_lines) : itp_atom_lines[i].ff_type \in DOMAIN charges

\* The run load -> ITP-resolve -> strip-solvent -> emit on well-formed files
\* has ended.
PlainItpRunEnded ==
    /\ itp_invoked
    /\ args.keep_atom = "None"
    /\ ~args.charmm_top
    /\ Len(loaded) >= 1
    /\ pc \in {"done", "aborted"}
    /\ fatal # "ValueError"

\* The !NATOM count is the number of atom lines, which is the number of
\* non-solvent atoms loaded, and no solvent atom is printed.
SolventFreeOutput ==
    /\ pc = "done"
    /\ \E j \in 1..Len(output) :
          /\ output[j].kind = "count"
          /\ output[j].text = "!NATOM"
          /\ output[j].n = Len(AtomLinesOf(output))
    /\ Len(AtomLinesOf(output)) = Len(NonSolventOf(loaded))
    /\ \A j \in 1..Len(output) :
          output[j].kind = "atom" => output[j].resname \notin SolventNames

\* No solvent atom is loaded before a non-solvent atom.
SolventLast ==
    \A i, j \in 1..Len(loaded) :
        (i < j /\ loaded[i].resname \in SolventNames) => loaded[j].resname \in SolventNames

\* C7 as claimed: whenever the [ atoms ] entries match the non-solvent atoms
\* in order and the [ atomtypes ] entries cover their types, the run
\* completes with a solvent-free output of as many atoms as were loaded
\* non-solvent.
C7_EndToEnd ==
    (PlainItpRunEnded /\ EntriesMatchNonSolvent /\ TypesCovered) => SolventFreeOutput

\* C7 as amended: the same, provided no solvent atom precedes a non-solvent
\* atom in the loaded collection.
C7_EndToEndSolventLast ==
    (PlainItpRunEnded /\ SolventLast /\ EntriesMatchNonSolvent /\ TypesCovered)
        => SolventFreeOutput

C7_Witness ==
    /\ PlainItpRunEnded
    /\ EntriesMatchNonSolvent
    /\ TypesCovered
    /\ SolventFreeOutput
    /\ Len(loaded) = 2
    /\ Len(AtomLinesOf(output)) = 1

\* C8: after an ITP resolution that types every surviving atom with a type
\* the [ atomtypes ] lines cover, print_as_psf completes, prints one line
\* per surviving atom in collection order, each with the charge the table
\* holds for the atom's type.
C8_ChargeJoin ==
    (itp_invoked /\ Emitting) =>
        LET lines == AtomLinesOf(output) IN
        /\ Len(lines) = emit_i
        /\ Len(lines) <= Len(atoms)
        /\ \A j \in 1..Len(lines) :
              /\ lines[j].atomid = atoms[j].atomid
              /\ lines[j].resid = atoms[j].resid
              /\ lines[j].resname = atoms[j].resname
              /\ lines[j].atomname = atoms[j].atomname
              /\ lines[j].chain = atoms[j].chain
              /\ lines[j].ff_type = atoms[j].ff_type
              /\ atoms[j].ff_type \in DOMAIN charges
              /\ lines[j].charge = charges[atoms[j].ff_type]
        /\ pc = "done" => Len(lines) = Len(atoms)
        /\ (\A i \in 1..Len(atoms) : atoms[i].ff_type \in DOMAIN charges)
              => fatal_in # "emit"

C8_Witness ==
    /\ itp_invoked
    /\ pc = "done"
    /\ Len(atoms) = 2
    /\ atoms[1].ff_type # atoms[2].ff_type
    /\ AtomLinesOf(output)[1].charge # AtomLinesOf(output)[2].charge
    /\ AtomLinesOf(output)[2].charge # 0

(***************************************************************************)
(* Properties of add_charmm_topology.                                      *)
(***************************************************************************)
LinesRead == [i \in 1..Len(top_read) |-> top_read[i].line]

AlaScenario ==
    << TopLine(<<"RESI", "ALA", "0">>, FALSE, FALSE),
       TopLine(<<"ATOM", "CA", "CT1", "0.02">>, FALSE, FALSE),
       TopLine(<<"BOND", "CA", "CB">>, FALSE, FALSE) >>

\* The last line read was an ATOM card, and it took effect.
AtomCardJustStored ==
    /\ pc = "charmm"
    /\ top_read # <<>>
    /\ Last(top_read).disp = "card"
    /\ Last(top_read).line.card[1] = "ATOM"

\* C9 as claimed: the cards RESI ALA, ATOM CA CT1 0.02, BOND CA CB parse
\* without error and leave under ALA the key CA with 0.02 and the key NH3
\* with -0.30; the charge of an ATOM card is stored under the first token
\* after ATOM.
C9_ChargeUnderAtomName ==
    /\ (charmm_invoked /\ LinesRead = AlaScenario) =>
          /\ fatal_in # "charmm"
          /\ "ALA" \in DOMAIN charge_by_type
          /\ "CA" \in DOMAIN charge_by_type["ALA"]
          /\ charge_by_type["ALA"]["CA"] = 2
          /\ charge_by_type["ALA"]["NH3"] = -30
    /\ AtomCardJustStored =>
          LET card == Last(top_read).line.card IN
          /\ card[2] \in DOMAIN charge_by_type[current_residue]
          /\ charge_by_type[current_residue][card[2]] = FloatOf(card[4])

\* C9 as amended: the same cards parse without error and leave under ALA
\* the key CT1 with 0.02 and the key NH3 with -0.30; the charge of an ATOM
\* card is stored under its atom type, the second token after ATOM.
C9_ChargeUnderAtomType ==
    /\ (charmm_invoked /\ LinesRead = AlaScenario) =>
          /\ fatal_in # "charmm"
          /\ "ALA" \in DOMAIN charge_by_type
          /\ "CT1" \in DOMAIN charge_by_type["ALA"]
          /\ charge_by_type["ALA"]["CT1"] = 2
          /\ charge_by_type["ALA"]["NH3"] = -30
    /\ AtomCardJustStored =>
          LET card == Last(top_read).line.card IN
          /\ card[3] \in DOMAIN charge_by_type[current_residue]
          /\ charge_by_type[current_residue][card[3]] = FloatOf(card[4])

C9_Witness ==
    /\ charmm_invoked
    /\ LinesRead = AlaScenario
    /\ pc = "nuke"
    /\ DOMAIN charge_by_type["ALA"] = {"CT1", "NH3"}

\* The cards that took effect, by their place in the file.
IsCard(i, tag) ==
    /\ top_read[i].disp = "card"
    /\ top_read[i].line.card[1] = tag

\* The residue that is current when the i-th line is read.
ResidueAt(i) ==
    LET before == { j \in 1..(i - 1) : IsCard(j, "RESI") } IN
    IF before = {} THEN ""
    ELSE top_read[CHOOSE j \in before : \A h \in before : h <= j].line.card[2]

OpenedResidues == { top_read[i].line.card[2] : i \in { j \in 1..Len(top_read) : IsCard(j, "RESI") } }

LastOpening(R) ==
    CHOOSE i \in 1..Len(top_read) :
        /\ IsCard(i, "RESI") /\ top_read[i].line.card[2] = R
        /\ \A j \in (i + 1)..Len(top_read) :
              ~(IsCard(j, "RESI") /\ top_read[j].line.card[2] = R)

\* The ATOM cards processed while R was current, since R was last opened.
AtomCardsUnder(R) ==
    { i \in (LastOpening(R) + 1)..Len(top_read) : IsCard(i, "ATOM") /\ ResidueAt(i) = R }

ExpectedTable(R) ==
    LET cards == AtomCardsUnder(R)
        types == { top_read[i].line.card[3] : i \in cards }
        lastOf(t) == CHOOSE i \in cards :
                        /\ top_read[i].line.card[3] = t
                        /\ \A j \in cards : top_read[j].line.card[3] = t => j <= i
    IN [t \in types \cup {"NH3"} |->
           IF t \in types THEN FloatOf(top_read[lastOf(t)].line.card[4]) ELSE -30]

\* C10: the table has an entry for exactly the residues RESI cards opened;
\* the entry of R maps each type of the ATOM cards processed while R was
\* current to the charge of the last of them, NH3 to -0.30 unless such a
\* card overrides it, and nothing else; a later RESI card of the same name
\* discards what the earlier one had collected.
C10_ResidueTables ==
    charmm_invoked =>
        /\ DOMAIN charge_by_type = OpenedResidues
        /\ \A R \in OpenedResidues : charge_by_type[R] = ExpectedTable(R)

C10_Witness ==
    /\ charmm_invoked
    /\ pc = "nuke"
    /\ Len(top_read) = 3
    /\ IsCard(1, "RESI") /\ IsCard(2, "ATOM") /\ IsCard(3, "RESI")
    /\ top_read[1].line.card[2] = top_read[3].line.card[2]
    /\ DOMAIN charge_by_type[top_read[1].line.card[2]] = {"NH3"}

\* The line a step of the CHARMM loop reads first.
FirstLineRead == top_read'[Len(top_read) + 1].line

CharmmReads == pc = "charmm" /\ Len(top_read') > Len(top_read)

\* The text left of the comment ends with `-'.
CardEndsWithDash(l) ==
    IF Len(l.card) = 0 THEN FALSE ELSE l.card[Len(l.card)] = "-"

\* The line as it stands in the file, comment included, ends with `-'.
EndsWithDashAsRead(l) == IF l.bang THEN l.comment_dash ELSE CardEndsWithDash(l)

\* A well-formed ATOM card.
IsAtomCard(l) ==
    IF Len(l.card) # 4 THEN FALSE ELSE l.card[1] = "ATOM" /\ IsFloat(l.card[4])

\* C11: the comment is removed before anything is decided about a line: a
\* line whose trailing `-' lies inside a `!' comment is processed as an
\* ordinary card (an ATOM card stores its charge) and the line after it is
\* not skipped (the step reads that one line only).
C11_CommentStrippedFirst ==
    [][(CharmmReads /\ FirstLineRead.bang /\ FirstLineRead.comment_dash
            /\ ~CardEndsWithDash(FirstLineRead))
        => /\ Len(top_read') = Len(top_read) + 1
           /\ (IsAtomCard(FirstLineRead) /\ current_residue \in DOMAIN charge_by_type)
                 => /\ FirstLineRead.card[3] \in DOMAIN charge_by_type'[current_residue]
                    /\ charge_by_type'[current_residue][FirstLineRead.card[3]]
                          = FloatOf(FirstLineRead.card[4])]_vars

\* C12 as claimed: the card on a line ending with `-' takes effect (a BOND
\* card registers its pairs) and exactly the line after it is discarded.
C12_ContinuationCardTakesEffect ==
    [][(CharmmReads /\ pc' = "charmm" /\ ~FirstLineRead.bang
            /\ CardEndsWithDash(FirstLineRead) /\ FirstLineRead.card[1] = "BOND"
            /\ current_residue \in DOMAIN bond_list)
        => /\ Len(top_read') = Len(top_read) + 2
           /\ BondKeys(Tail(FirstLineRead.card)) \subseteq bond_list'[current_residue]]_vars

\* C12 as amended: a line that ends with `-' as read (comment included) is
\* dropped together with the physical line immediately following it: the
\* step reads these two lines (one at the end of the file), raises no error
\* and changes no table and no current residue, whatever cards the two lines
\* hold and even if the second ends with `-' too; so the line after the
\* discarded one is processed as if the two were absent.  Any other line is
\* read alone.
C12_ContinuationDropsBothLines ==
    [][CharmmReads =>
        IF EndsWithDashAsRead(FirstLineRead)
        THEN /\ UNCHANGED <<charge_by_type, has_charge_by_type, atoms, charges>>
             /\ fatal' = "none"
             /\ pc' \in {"charmm", "nuke"}
             /\ pc' = "charmm" =>
                   /\ Len(top_read') = Len(top_read) + 2
                   /\ UNCHANGED <<current_residue, bond_list>>
             /\ pc' = "nuke" => Len(top_read') = Len(top_read) + 1
        ELSE Len(top_read') = Len(top_read) + 1]_vars

C12_Witness ==
    /\ pc = "charmm"
    /\ Len(top_read) = 3
    /\ IsCard(1, "RESI")
    /\ top_read[2].disp = "continuation"
    /\ top_read[2].line.card = <<"BOND", "CA", "CB", "-">>
    /\ top_read[3].disp = "discarded"
    /\ top_read[3].line.card = <<"ATOM", "N", "NH3", "-0.47">>
    /\ charge_by_type[current_residue] = NewResidueTable
    /\ bond_list[current_residue] = {}

\* C19: while add_atom_types_from_itp runs, the cursor stays between 0 and
\* the number N of atoms, exactly the atoms before the cursor carry a type,
\* the i-th that of the i-th [ atoms ] line (none is assigned twice); an
\* [ atoms ] line read with the cursor at N aborts the run and leaves every
\* type as it was.
C19_CursorInRange ==
    (pc = "itp" \/ (fatal_in = "itp" /\ fatal # "precondition")) =>
        /\ 0 <= atom_i /\ atom_i <= Len(atoms)
        /\ Len(atoms) = Len(loaded)
        /\ TypedUpTo(atom_i)
        /\ Len(itp_atom_lines) <= Len(atoms) + 1
        /\ Len(itp_atom_lines) = Len(atoms) + 1 =>
              /\ pc = "aborted"
              /\ fatal = "IndexError"
              /\ atom_i = Len(atoms)

C19_Witness ==
    /\ pc = "aborted"
    /\ fatal = "IndexError"
    /\ fatal_in = "itp"
    /\ Len(atoms) = 2
    /\ atom_i = 2
    /\ Len(itp_atom_lines) = 3
    /\ atoms[1].ff_type = "CT"
    /\ atoms[2].ff_type = "NH"
    /\ itp_atom_lines[3].ff_type = "CT"

\* A step that opens an ITP file: the first one, or the next one at the end
\* of the file before.
OpensFirstFile == pc = "itp_enter" /\ pc' = "itp"

OpensNextFile == pc = "itp" /\ pc' = "itp" /\ itp_file' = itp_file + 1

\* C20: at the start of each ITP file no block is current and the
\* block-skip flag is clear, whatever they were at the end of the file
\* before, while the cursor, the types assigned and the charge table carry
\* over from file to file.
C20_FlagsResetPerFile ==
    [][/\ (OpensFirstFile \/ OpensNextFile) =>
             (~in_atom_block' /\ ~in_atomtypes_block' /\ ~in_ifdef_block')
       /\ OpensNextFile => UNCHANGED <<atom_i, atoms, charges, has_charges>>]_vars

C20_Witness ==
    /\ pc = "itp"
    /\ itp_file = 2
    /\ ~in_atom_block /\ ~in_atomtypes_block /\ ~in_ifdef_block
    /\ atom_i = 1
    /\ Len(itp_atom_lines) = 1
    /\ DOMAIN charges = {"CT"}

(***************************************************************************)
(* Properties of the charge table of add_atom_types_from_itp.              *)
(***************************************************************************)
\* The (type, charge) of the [ atomtypes ] lines that were stored, in
\* reading order; the 7-token form puts the charge fourth, the 6-token form
\* third.
StoredLines ==
    LET st == SelectSeq(itp_type_lines, LAMBDA r : r.stored)
    IN  [i \in 1..Len(st) |->
            [ff_type |-> st[i].toks[1],
             charge  |-> FloatVal[IF Len(st[i].toks) = 6 THEN st[i].toks[3]
                                                        ELSE st[i].toks[4]]]]

TypesSupplied == { StoredLines[i].ff_type : i \in 1..Len(StoredLines) }

\* The last [ atomtypes ] line stored for type t, in reading order.
LastLineFor(t) ==
    CHOOSE i \in 1..Len(StoredLines) :
        /\ StoredLines[i].ff_type = t
        /\ \A j \in (i + 1)..Len(StoredLines) : StoredLines[j].ff_type # t

\* C13: the charge table maps each force-field type to the charge of the
\* last non-skipped [ atomtypes ] line for it, in reading order over all the
\* ITP files (a later line or file overwrites, nothing is reset between
\* files), and has no key that no such line supplied.
C13_LastLineWins ==
    has_charges =>
        /\ DOMAIN charges = TypesSupplied
        /\ \A t \in TypesSupplied : charges[t] = StoredLines[LastLineFor(t)].charge

C13_Witness ==
    /\ itp_invoked
    /\ pc = "nuke"
    /\ args.gromacs_itp = 2
    /\ Len(StoredLines) = 2
    /\ StoredLines[1].ff_type = StoredLines[2].ff_type
    /\ StoredLines[1].charge # StoredLines[2].charge
    /\ charges[StoredLines[2].ff_type] = StoredLines[2].charge

\* The charge token of an [ atomtypes ] line as the claim has it: the
\* fourth of exactly seven tokens, the third otherwise.
ChargeTokenIfExactlySeven(toks) == IF Len(toks) = 7 THEN toks[4] ELSE toks[3]

\* The same as the unpacking of toks[0:7] has it: the fourth of seven or
\* more tokens, the third of six.
ChargeTokenIfSevenOrMore(toks) == IF Len(toks) >= 7 THEN toks[4] ELSE toks[3]

\* What became of the i-th [ atomtypes ] line read, tok being its charge
\* token: with six tokens or more and a number for a charge it was stored,
\* and while it is the last line read the table holds that charge for its
\* type; otherwise it ended the run (ValueError) and recorded nothing.
TypeLineOutcome(i, tok) ==
    LET r == itp_type_lines[i] IN
    IF (IF Len(r.toks) < 6 THEN FALSE ELSE IsFloat(tok))
    THEN /\ r.stored
         /\ i = Len(itp_type_lines) =>
               /\ r.toks[1] \in DOMAIN charges
               /\ charges[r.toks[1]] = FloatOf(tok)
    ELSE /\ ~r.stored
         /\ i = Len(itp_type_lines)
         /\ pc = "aborted" /\ fatal = "ValueError" /\ fatal_in = "itp"
         /\ r.toks[1] \in DOMAIN charges =>
               \E j \in 1..(i - 1) : itp_type_lines[j].toks[1] = r.toks[1]

\* C18 as claimed: the charge recorded for a non-skipped [ atomtypes ] line
\* is the 4th token when the line has exactly seven tokens and the 3rd
\* whenever it has not; a line of fewer than six tokens is fatal and
\* records nothing.
C18_ChargeFourthOfExactlySeven ==
    \A i \in 1..Len(itp_type_lines) :
        TypeLineOutcome(i, ChargeTokenIfExactlySeven(itp_type_lines[i].toks))

\* C18 as amended: the charge recorded is the 4th token when the line has
\* seven tokens or more and the 3rd when it has exactly six; a line of
\* fewer than six tokens is fatal and records nothing.
C18_ChargeFourthOfSevenOrMore ==
    \A i \in 1..Len(itp_type_lines) :
        TypeLineOutcome(i, ChargeTokenIfSevenOrMore(itp_type_lines[i].toks))

C18_Witness ==
    /\ pc = "itp"
    /\ Len(itp_type_lines) = 2
    /\ Len(itp_type_lines[1].toks) = 6
    /\ itp_type_lines[1].toks[1] = "CT"
    /\ Len(itp_type_lines[2].toks) = 8
    /\ itp_type_lines[2].toks[1] = "NH"
    /\ charges["CT"] = -27
    /\ charges["NH"] = -30

(***************************************************************************)
(* Properties of the filters.                                              *)
(***************************************************************************)
\* The elements of as at the positions idx, in their order in as.
Survivors(as, idx) ==
    [k \in 1..Cardinality(idx) |->
        as[CHOOSE i \in idx : Cardinality({ j \in idx : j <= i }) = k]]

NonSolventAt(as) == { i \in 1..Len(as) : as[i].resname \notin SolventNames }

NamedAt(as, n) == { i \in 1..Len(as) : as[i].atomname = n }

\* An atom as load_from_pdb made it, before any resolver typed it.
Untyped(as) == [i \in 1..Len(as) |-> [as[i] EXCEPT !.ff_type = ""]]

\* C14: on every collection the loader builds and on every collection it
\* is called with, nuke_solvent removes exactly the atoms whose residue
\* name is one of WAT, T3P, HOH, PW, W, keeps the others in their order, and
\* applied to its own result changes nothing; after the orchestrator's call
\* the collection holds the loaded non-solvent atoms in their loaded order.
C14_NukeSolvent ==
    /\ pc \in {"load", "nuke"} =>
          LET once == NukeSolvent(atoms) IN
          /\ once = Survivors(atoms, NonSolventAt(atoms))
          /\ NukeSolvent(once) = once
    /\ (pc = "keep" \/ (pc = "emit" /\ args.keep_atom = "None"))
          => Untyped(atoms) = Survivors(loaded, NonSolventAt(loaded))

C14_Witness ==
    /\ pc = "keep"
    /\ Len(loaded) = 2
    /\ loaded[1].resname = "HOH"
    /\ Len(atoms) = 1
    /\ atoms[1].resname = "ALA"

\* The atom names the filter is asked for.
AtomNames == {"CA", "N", "OW", "HA"}

\* C15: for every collection (those the loader builds, those the filter is
\* called with) and every atom name n, the survivors of
\* keep_only_atomname(n) are all named n, are as many as the atoms named n
\* before the filter, and stand in their original order; after the
\* orchestrator's call the collection holds the loaded non-solvent atoms of
\* that name.
C15_KeepOnlyAtomname ==
    /\ pc \in {"load", "keep"} =>
          \A n \in AtomNames :
             LET kept == KeepOnlyAtomname(atoms, n) IN
             /\ \A i \in 1..Len(kept) : kept[i].atomname = n
             /\ Len(kept) = Cardinality(NamedAt(atoms, n))
             /\ kept = Survivors(atoms, NamedAt(atoms, n))
    /\ (pc = "emit" /\ args.keep_atom # "None")
          => LET ns == Survivors(loaded, NonSolventAt(loaded)) IN
             Untyped(atoms) = Survivors(ns, NamedAt(ns, args.keep_atom))

C15_Witness ==
    /\ pc = "emit"
    /\ args.keep_atom = "CA"
    /\ Len(loaded) = 2
    /\ loaded[1].atomname = "N"
    /\ Len(atoms) = 1
    /\ atoms[1].atomname = "CA"

\* Every atom of the collection after the step is, field for field, an
\* atom of the collection before it.
SurvivorsUntouched ==
    \A i \in 1..Len(atoms') : \E j \in 1..Len(atoms) : atoms'[i] = atoms[j]

\* The atom lines printed carry, in order, the ids and the other PDB fields
\* of atoms that were loaded.
EmittedIdsAreLoadedIds ==
    LET lines == AtomLinesOf(output) IN
    \E f \in [1..Len(lines) -> 1..Len(loaded)] :
        /\ \A a, b \in 1..Len(lines) : a < b => f[a] < f[b]
        /\ \A k \in 1..Len(lines) :
              /\ lines[k].atomid = loaded[f[k]].atomid
              /\ lines[k].resid = loaded[f[k]].resid
              /\ lines[k].chain = loaded[f[k]].chain
              /\ lines[k].resname = loaded[f[k]].resname
              /\ lines[k].atomname = loaded[f[k]].atomname

\* C16: nuke_solvent and keep_only_atomname change only which atoms are in
\* the collection: a surviving atom keeps its id, residue id, chain, names
\* and force-field type, the charge tables are unchanged, and the ids
\* print_as_psf prints are the ids read from the PDB file, never renumbered.
C16_FiltersFrame ==
    /\ [][(pc \in {"nuke", "keep"}) =>
            (SurvivorsUntouched
               /\ UNCHANGED <<has_charges, charges, has_charge_by_type,
                              charge_by_type>>)]_vars
    /\ []EmittedIdsAreLoadedIds

C16_Witness ==
    /\ pc = "done"
    /\ Len(loaded) = 2
    /\ loaded[1].atomid = 8
    /\ Len(AtomLinesOf(output)) = 1
    /\ AtomLinesOf(output)[1].atomid = 2
    /\ AtomLinesOf(output)[1].ff_type = "NH"

(***************************************************************************)
(* Properties of the run as a whole.                                       *)
(***************************************************************************)
\* The stages in the order of lines 189-197, and where each may lead.
StageOrder ==
    { <<"load", "itp_enter">>, <<"load", "charmm_enter">>, <<"load", "nuke">>,
      <<"itp_enter", "itp">>, <<"itp", "charmm_enter">>, <<"itp", "nuke">>,
      <<"charmm_enter", "charmm">>, <<"charmm", "nuke">>,
      <<"nuke", "keep">>, <<"nuke", "emit">>, <<"keep", "emit">>,
      <<"emit", "emit_atoms">>, <<"emit_atoms", "done">> }

\* Load, the requested resolvers and the requested filters have completed.
StagesCompleted ==
    /\ pc \in {"emit", "emit_atoms", "done"} \/ fatal_in = "emit"
    /\ args.gromacs_itp # 0 => (itp_invoked /\ itp_file = 0)
    /\ args.charmm_top => (charmm_invoked /\ has_charge_by_type)
    /\ \A i \in 1..Len(atoms) : atoms[i].resname \notin SolventNames
    /\ args.keep_atom # "None" =>
          \A i \in 1..Len(atoms) : atoms[i].atomname = args.keep_atom

\* C17: a fatal error of the load or of a resolver comes before anything
\* is written to the standard output: no PSF line is printed unless load,
\* every requested resolver and every requested filter have completed, in
\* that order.
C17_NoOutputBeforeStagesComplete ==
    /\ [](fatal_in \in {"load", "itp", "charmm"} => output = <<>>)
    /\ [](output # <<>> => StagesCompleted)
    /\ [][pc' # pc => (pc' = "aborted" \/ <<pc, pc'>> \in StageOrder)]_vars

C17_Witness ==
    /\ pc = "aborted"
    /\ fatal_in = "charmm"
    /\ itp_invoked
    /\ Len(atoms) >= 1
    /\ output = <<>>

====
